---- MODULE Spec2Model ----
(***************************************************************************)
(* Model of gh-pinned-repos (src/index.ts): an HTTP handler that scrapes a *)
(* profile page for pinned repositories, with a quick-lru cache and a      *)
(* stale-while-revalidate refresh on cache hits.                           *)
(*                                                                         *)
(* One action is one run of the event loop between two suspension points   *)
(* (await): the arrival of a request up to its first await, the arrival of *)
(* an upstream response, the firing of a timer, the continuation of the    *)
(* handler after getPinnedRepos has settled.                               *)
(*                                                                         *)
(* Four specifications share the actions and differ in their inputs:       *)
(*   Spec       concurrent requests, two usernames, at most one pinned item*)
(*   SpecItems  concurrent requests, one username, two pinned items        *)
(*   SpecSeq    requests one after the other, four usernames               *)
(*   SpecPair   concurrent requests, three usernames, all cached before    *)
(* A fifth, SpecParse, applies parseNumericValue to every short text.      *)
(***************************************************************************)
EXTENDS Integers, Sequences, FiniteSets, TLC

\* ---------------------------------------------------------------- bounds
\* Number of requests the server receives in a behaviour of Spec.
MaxRequests == 3
\* Number of requests the server receives in a behaviour of SpecSeq.
MaxSeqRequests == 5
\* Number of requests the server receives in a behaviour of SpecItems.
MaxItemRequests == 2
\* requests received in a run that starts from a warm cache (SpecPair)
MaxPairRequests == 2
\* length of the count texts given to parseNumericValue (SpecParse)
MaxLen == 4
\* cache = new LRU({ maxSize: 500 }), scaled down (src/index.ts:19).
maxSize == 2

\* ------------------------------------------------------------ input sets
\* Handler invocations that can be alive together; a slot is taken again
\* once its request is answered and its getPinnedRepos call has settled.
Slots == {1, 2}
Users == {"u1", "u2"}
SeqUsers == {"u1", "u2", "u3", "u4"}
NoUser == "null"                 \* url.searchParams.get("username") === null
\* Profile markups the upstream may serve: the ordered pinned items.
Pages == {<< >>, <<"r1">>}
SeqPages == {<< >>, <<"r1">>}
PairUsers == {"u1", "u2", "u3"}
PairPages == {<< >>, <<"r2">>}
ItemUsers == {"u1"}
ItemPages == {<< >>, <<"r1", "r2">>, <<"r2", "r1">>}
Undefined == "undefined"
Pending == "pending"             \* a website promise that has not settled
\* What the first https anchor of a repository page may be.
Websites == {Undefined, "w1"}
Methods == {"GET", "OPTIONS"}

VARIABLES
  cache,     \* the quick-lru instance: [cache, oldCache, size]
  inserted,  \* the usernames cache.set has been called with
  nreq,      \* number of requests received so far
  req,       \* req[s]: the request handled in slot s and its response
  job,       \* job[s]: the getPinnedRepos call started by that request
  newer,     \* the slot whose call started after the call of the other
             \* slot, while that other call is still running; 0 if none
  text,      \* the scraped count text given to parseNumericValue
  parsed     \* what parseNumericValue returned for it

vars == <<cache, inserted, nreq, req, job, newer, text, parsed>>

\* --------------------------------------------------------------- quick-lru
\* quick-lru@6.1.1 (imported at src/index.ts:2, constructed at 18-20) keeps
\* two generations, `cache` and `oldCache`, and a counter `_size` of the
\* insertions into the recent generation.
EmptyMap == [k \in {} |-> << >>]

MapPut(m, k, v) == [x \in (DOMAIN m) \cup {k} |-> IF x = k THEN v ELSE m[x]]

MapDel(m, k) == [x \in (DOMAIN m) \ {k} |-> m[x]]

NewLRU == [cache |-> EmptyMap, oldCache |-> EmptyMap, size |-> 0]

\* LruInsert that never drops the old generation.
LruInsertNeverEvicting(c, k, v) ==
  [cache |-> MapPut(c.cache, k, v), oldCache |-> c.oldCache, size |-> c.size + 1]

\* _set(key, value): insert in the recent generation; when it is full the
\* old generation is dropped and the recent one takes its place.
LruInsert(c, k, v) ==
  LET nc == MapPut(c.cache, k, v)
      ns == c.size + 1
  IN  IF ns >= maxSize
        THEN [cache |-> EmptyMap, oldCache |-> nc, size |-> 0]
        ELSE [cache |-> nc, oldCache |-> c.oldCache, size |-> ns]

\* LruSet that forgets the old generation on every call.
LruSetClearing(c, k, v) ==
  LruInsert([c EXCEPT !.oldCache = EmptyMap, !.cache = MapDel(c.cache, k)], k, v)

\* set(key, value)
LruSet(c, k, v) ==
  IF k \in DOMAIN c.cache
    THEN [c EXCEPT !.cache = MapPut(c.cache, k, v)]
    ELSE LruInsert(c, k, v)

\* has(key)
LruHas(c, k) == k \in DOMAIN c.cache \/ k \in DOMAIN c.oldCache

\* the value get(key) returns (has(key) holds)
LruValue(c, k) == IF k \in DOMAIN c.cache THEN c.cache[k] ELSE c.oldCache[k]

\* the instance after get(key): a hit in the old generation moves the item
\* to the recent one (_moveToRecent)
LruGet(c, k) ==
  IF k \in DOMAIN c.cache THEN c
  ELSE IF k \in DOMAIN c.oldCache
    THEN LruInsert([c EXCEPT !.oldCache = MapDel(c.oldCache, k)], k, c.oldCache[k])
    ELSE c

LruKeys(c) == (DOMAIN c.cache) \cup (DOMAIN c.oldCache)

\* ------------------------------------------------------------- responses
NoResponse ==
  [status |-> 0, kind |-> "pending", list |-> << >>, error |-> "", details |-> ""]
\* new Response(null, { headers })
OptionsResponse ==
  [status |-> 200, kind |-> "empty", list |-> << >>, error |-> "", details |-> ""]
\* the informational page
InfoResponse ==
  [status |-> 200, kind |-> "html", list |-> << >>, error |-> "", details |-> ""]
\* new Response(JSON.stringify(result, null, 2), ...)
JsonResponse(result) ==
  [status |-> 200, kind |-> "json", list |-> result, error |-> "", details |-> ""]
\* { error: "Failed to fetch pinned repositories", details: error.message }
ErrorResponse ==
  [status |-> 500, kind |-> "error", list |-> << >>,
   error |-> "Failed to fetch pinned repositories", details |-> "Failed to load URL"]

\* ------------------------------------------------------- fetchWithTimeout
\* One outbound fetch (fetchWithTimeout + response.text() in loadHTML).
\*   stage: "connect" awaiting fetch(), "body" awaiting response.text(),
\*          "done" loaded, "failed" loadHTML threw;
\*   timer: the abort timer is armed.
StartFetch == [stage |-> "connect", timer |-> TRUE, value |-> Pending]

NoFetch == [stage |-> "done", timer |-> FALSE, value |-> Pending]

\* fetch() resolved with an ok response: `finally` clears the timer, and
\* loadHTML goes on to await response.text().
FetchHeaders(f) == [f EXCEPT !.stage = "body", !.timer = FALSE]

\* fetch() rejected, the response was not ok, the timer aborted the fetch,
\* or response.text() rejected: loadHTML throws "Failed to load URL".
FetchFailed(f) == [stage |-> "failed", timer |-> FALSE, value |-> Undefined]

\* response.text() resolved and the page was parsed to the value v.
FetchLoaded(f, v) == [stage |-> "done", timer |-> FALSE, value |-> v]

\* --------------------------------------------------------- getPinnedRepos
\* The records of a page, in markup order, with the websites found so far.
Assemble(u, page, web) ==
  [i \in 1..Len(page) |-> [owner |-> u, repo |-> page[i], website |-> web[i].value]]

AllSettled(web) == \A i \in 1..Len(web) : web[i].stage \in {"done", "failed"}

NoJob == [stage |-> "none", fetch |-> NoFetch, page |-> << >>, web |-> << >>,
          settled |-> << >>, list |-> << >>, endAt |-> 0]

\* getPinnedRepos(username) up to its first await: the profile fetch starts.
StartJob == [stage |-> "profile", fetch |-> StartFetch, page |-> << >>,
             web |-> << >>, settled |-> << >>, list |-> << >>, endAt |-> 0]

\* ItemSettled with every record pushed on a shared array when its item settles.
ItemSettledPushing(u, j, i, f) ==
  LET w == [j.web EXCEPT ![i] = f]
      l == Append(j.list, [owner |-> u, repo |-> j.page[i], website |-> f.value])
  IN  [j EXCEPT !.web = w, !.settled = Append(@, i), !.list = l,
                !.stage = IF AllSettled(w) THEN "resolved" ELSE "items"]

\* A website fetch of job j settled (settled keeps the order in which they
\* do): Promise.all resolves once all have, with the records by index.
ItemSettled(u, j, i, f) ==
  LET w == [j.web EXCEPT ![i] = f]
  IN  IF AllSettled(w)
        THEN [j EXCEPT !.web = w, !.settled = Append(@, i), !.stage = "resolved",
                       !.list = Assemble(u, j.page, w)]
        ELSE [j EXCEPT !.web = w, !.settled = Append(@, i)]

\* ------------------------------------------------------ parseNumericValue
\* A text is a sequence of characters; the ones that matter to the parsers
\* (no exponent letter, no plus sign: parseFloat never sees them here).
Digits == {"0", "1", "2", "5"}
Chars == Digits \cup {".", ",", "k", "K", "a", "b", "c", "-", " "}
Texts == UNION {[1..n -> Chars] : n \in 0..MaxLen}

DigitValue(c) ==
  CASE c = "0" -> 0 [] c = "1" -> 1 [] c = "2" -> 2 [] c = "5" -> 5 [] OTHER -> 0

\* A JavaScript number: NaN, or the fraction num / den.
NaN == [nan |-> TRUE, num |-> 0, den |-> 1]
Number(n, d) == [nan |-> FALSE, num |-> n, den |-> d]

\* String.prototype.toLowerCase
toLowerCase(t) ==
  IF t = << >> THEN << >>
  ELSE [i \in 1..Len(t) |-> IF t[i] = "K" THEN "k" ELSE t[i]]

RECURSIVE TrimStart(_)
TrimStart(t) ==
  IF t # << >> /\ Head(t) = " " THEN TrimStart(Tail(t)) ELSE t

RECURSIVE TrimEnd(_)
TrimEnd(t) ==
  IF t # << >> /\ t[Len(t)] = " " THEN TrimEnd(SubSeq(t, 1, Len(t) - 1)) ELSE t

\* String.prototype.trim
trim(t) == TrimEnd(TrimStart(t))

\* The digits a parser reads from the front of t: how many (n), their
\* value (val), and what follows them (rest).
RECURSIVE ScanDigits(_, _, _)
ScanDigits(t, n, val) ==
  IF t # << >> /\ Head(t) \in Digits
    THEN ScanDigits(Tail(t), n + 1, val * 10 + DigitValue(Head(t)))
    ELSE [n |-> n, val |-> val, rest |-> t]

\* parseInt with every leading digit required to be the whole text.
parseIntStrict(t, radix) ==
  LET s    == TrimStart(t)
      neg  == s # << >> /\ Head(s) = "-"
      d    == ScanDigits(IF neg THEN Tail(s) ELSE s, 0, 0)
  IN  IF d.n = 0 \/ d.rest # << >> THEN NaN
      ELSE Number(IF neg THEN 0 - d.val ELSE d.val, 1)

\* parseInt(t, 10): leading white space, a sign, then the digits up to the
\* first character that is not one; NaN when there is no digit.
parseInt(t, radix) ==
  LET s    == TrimStart(t)
      neg  == s # << >> /\ Head(s) = "-"
      d    == ScanDigits(IF neg THEN Tail(s) ELSE s, 0, 0)
  IN  IF d.n = 0 THEN NaN
      ELSE Number(IF neg THEN 0 - d.val ELSE d.val, 1)

\* parseFloat(t): leading white space, a sign, digits, a point, digits, up
\* to the first character that does not fit; NaN when there is no digit.
parseFloat(t) ==
  LET s    == TrimStart(t)
      neg  == s # << >> /\ Head(s) = "-"
      i    == ScanDigits(IF neg THEN Tail(s) ELSE s, 0, 0)
      dot  == i.rest # << >> /\ Head(i.rest) = "."
      f    == IF dot THEN ScanDigits(Tail(i.rest), 0, 0)
              ELSE [n |-> 0, val |-> 0, rest |-> i.rest]
      m    == i.val * (10 ^ f.n) + f.val
  IN  IF i.n + f.n = 0 THEN NaN
      ELSE Number(IF neg THEN 0 - m ELSE m, 10 ^ f.n)

\* x * k
Times(x, k) == IF x.nan THEN NaN ELSE Number(x.num * k, x.den)

\* Math.round: the nearest integer, halves towards +Infinity; NaN stays NaN.
MathRound(x) ==
  IF x.nan THEN NaN ELSE Number((2 * x.num + x.den) \div (2 * x.den), 1)

\* parseNumericValue without the toLowerCase() call.
parseNumericValueCaseSensitive(value) ==
  IF value = << >> THEN Number(0, 1)
  ELSE LET normalized == trim(value)
       IN  IF normalized # << >> /\ normalized[Len(normalized)] = "k"
             THEN MathRound(Times(parseFloat(SubSeq(normalized, 1, Len(normalized) - 1)), 1000))
             ELSE LET n == parseInt(normalized, 10)
                  IN  IF n.nan \/ n.num = 0 THEN Number(0, 1) ELSE n

\* parseNumericValue(value)
parseNumericValue(value) ==
  IF value = << >> THEN Number(0, 1)
  ELSE LET normalized == trim(toLowerCase(value))
       IN  IF normalized # << >> /\ normalized[Len(normalized)] = "k"
             THEN MathRound(Times(parseFloat(SubSeq(normalized, 1, Len(normalized) - 1)), 1000))
             ELSE LET n == parseInt(normalized, 10)
                  IN  IF n.nan \/ n.num = 0 THEN Number(0, 1) ELSE n

\* What parseNumericValue returned: NaN, or the integer val.
NotParsed == [done |-> FALSE, nan |-> FALSE, val |-> 0]

\* stars: parseNumericValue(<text of the stargazers link>), forks alike.
NormalizeCount ==
  /\ ~parsed.done
  /\ parsed' = [done |-> TRUE, nan |-> parseNumericValue(text).nan,
                val |-> parseNumericValue(text).num]
  /\ UNCHANGED <<cache, inserted, nreq, req, job, newer, text>>

\* ---------------------------------------------------------------- handler
NoRequest == [method |-> "GET", user |-> NoUser, refresh |-> FALSE,
              path |-> "idle", resp |-> NoResponse]

\* The handler invocation of slot s has returned and left nothing behind.
Free(s) ==
  \/ req[s].path \in {"idle", "options", "info"}
  \/ job[s].stage \in {"done", "failed"}

\* The call started in slot s is newer than a call still running elsewhere.
Started(s) == IF \E t \in Slots \ {s} : ~Free(t) THEN s ELSE 0

\* The call of slot s has been consumed: it is no longer the older one.
Ended(s) == IF newer = s THEN s ELSE 0

\* request.method === "OPTIONS": the URL is not even parsed
HandleOptions(s, m, u, f) ==
  /\ req' = [req EXCEPT ![s] = [method |-> m, user |-> NoUser,
                                refresh |-> FALSE, path |-> "options",
                                resp |-> OptionsResponse]]
  /\ job' = [job EXCEPT ![s] = NoJob]
  /\ UNCHANGED <<cache, inserted>>
  /\ newer' = 0

\* !username
HandleInfo(s, m, u, f) ==
  /\ req' = [req EXCEPT ![s] = [method |-> m, user |-> NoUser,
                                refresh |-> FALSE, path |-> "info",
                                resp |-> InfoResponse]]
  /\ job' = [job EXCEPT ![s] = NoJob]
  /\ UNCHANGED <<cache, inserted>>
  /\ newer' = 0

\* HandleHit with the refresh awaited before the response is built.
HandleHitAwaiting(s, m, u, f) ==
  /\ req' = [req EXCEPT ![s] = [method |-> m, user |-> u,
                                refresh |-> f, path |-> "hit",
                                resp |-> NoResponse]]
  /\ cache' = LruGet(cache, u)
  /\ job' = [job EXCEPT ![s] = StartJob]
  /\ UNCHANGED inserted
  /\ newer' = Started(s)

\* !refresh && cache.has(username): answer from the cache and start a
\* detached refresh.
HandleHit(s, m, u, f) ==
  /\ req' = [req EXCEPT ![s] = [method |-> m, user |-> u,
                                refresh |-> f, path |-> "hit",
                                resp |-> JsonResponse(LruValue(cache, u))]]
  /\ cache' = LruGet(cache, u)
  /\ job' = [job EXCEPT ![s] = StartJob]
  /\ UNCHANGED inserted
  /\ newer' = Started(s)

\* HandleSync joining the call another request for u has already started.
HandleSyncCoalescing(s, m, u, f) ==
  /\ req' = [req EXCEPT ![s] = [method |-> m, user |-> u,
                                refresh |-> f, path |-> "sync",
                                resp |-> NoResponse]]
  /\ job' = [job EXCEPT ![s] =
       IF \E t \in Slots \ {s} : ~Free(t) /\ req[t].user = u
         THEN job[CHOOSE t \in Slots \ {s} : ~Free(t) /\ req[t].user = u]
         ELSE StartJob]
  /\ UNCHANGED <<cache, inserted>>
  /\ newer' = Started(s)

\* otherwise: result = await getPinnedRepos(username)
HandleSync(s, m, u, f) ==
  /\ req' = [req EXCEPT ![s] = [method |-> m, user |-> u,
                                refresh |-> f, path |-> "sync",
                                resp |-> NoResponse]]
  /\ job' = [job EXCEPT ![s] = StartJob]
  /\ UNCHANGED <<cache, inserted>>
  /\ newer' = Started(s)

\* Dispatch with the refresh flag left out of the cache test.
DispatchIgnoringRefresh(s, m, u, f) ==
  /\ nreq' = nreq + 1
  /\ IF m = "OPTIONS" THEN HandleOptions(s, m, u, f)
     ELSE IF u = NoUser THEN HandleInfo(s, m, u, f)
     ELSE IF LruHas(cache, u) THEN HandleHit(s, m, u, f)
     ELSE HandleSync(s, m, u, f)

\* Dispatch with the username looked at before the method.
DispatchUsernameFirst(s, m, u, f) ==
  /\ nreq' = nreq + 1
  /\ IF u # NoUser /\ ~f /\ LruHas(cache, u) THEN HandleHit(s, m, u, f)
     ELSE IF u # NoUser THEN HandleSync(s, m, u, f)
     ELSE IF m = "OPTIONS" THEN HandleOptions(s, m, u, f)
     ELSE HandleInfo(s, m, u, f)

\* Dispatch with a cached empty list taken for a missing entry.
DispatchEmptyIsMiss(s, m, u, f) ==
  /\ nreq' = nreq + 1
  /\ IF m = "OPTIONS" THEN HandleOptions(s, m, u, f)
     ELSE IF u = NoUser THEN HandleInfo(s, m, u, f)
     ELSE IF ~f /\ LruHas(cache, u) /\ LruValue(cache, u) # << >>
       THEN HandleHit(s, m, u, f)
     ELSE HandleSync(s, m, u, f)

\* handler(request) in slot s, up to its first await or its return.
Dispatch(s, m, u, f) ==
  /\ nreq' = nreq + 1
  /\ IF m = "OPTIONS" THEN HandleOptions(s, m, u, f)
     ELSE IF u = NoUser THEN HandleInfo(s, m, u, f)
     ELSE IF ~f /\ LruHas(cache, u) THEN HandleHit(s, m, u, f)
     ELSE HandleSync(s, m, u, f)

\* A request arrives while others may be in flight.
Handler(m, u, f) ==
  /\ nreq < MaxRequests
  /\ \E s \in Slots :
       /\ Free(s)
       /\ Dispatch(s, m, u, f)
  /\ UNCHANGED <<text, parsed>>

\* A request arrives while others may be in flight (SpecItems).
ItemHandler(m, u, f) ==
  /\ nreq < MaxItemRequests
  /\ \E s \in Slots :
       /\ Free(s)
       /\ Dispatch(s, m, u, f)
  /\ UNCHANGED <<text, parsed>>

\* A request arrives while others may be in flight (SpecPair).
PairHandler(m, u, f) ==
  /\ nreq < MaxPairRequests
  /\ \E s \in Slots :
       /\ Free(s)
       /\ Dispatch(s, m, u, f)
  /\ UNCHANGED <<text, parsed>>

\* A request arrives when nothing else is in flight.
SeqHandler(m, u, f) ==
  /\ nreq < MaxSeqRequests
  /\ \A t \in Slots : Free(t)
  /\ Dispatch(1, m, u, f)
  /\ UNCHANGED <<text, parsed>>

\* ------------------------------------------------- the profile page fetch
ProfileHeaders(s) ==
  /\ job[s].stage = "profile" /\ job[s].fetch.stage = "connect"
  /\ job' = [job EXCEPT ![s].fetch = FetchHeaders(@)]
  /\ UNCHANGED <<cache, inserted, nreq, req>>
  /\ UNCHANGED <<newer, text, parsed>>

\* network error or !response.ok
ProfileError(s) ==
  /\ job[s].stage = "profile" /\ job[s].fetch.stage = "connect"
  /\ job' = [job EXCEPT ![s].fetch = FetchFailed(@), ![s].stage = "rejected"]
  /\ UNCHANGED <<cache, inserted, nreq, req>>
  /\ UNCHANGED <<newer, text, parsed>>

\* setTimeout(() => controller.abort(), timeout)
ProfileTimeout(s) ==
  /\ job[s].stage = "profile" /\ job[s].fetch.timer
  /\ job' = [job EXCEPT ![s].fetch = FetchFailed(@), ![s].stage = "rejected"]
  /\ UNCHANGED <<cache, inserted, nreq, req>>
  /\ UNCHANGED <<newer, text, parsed>>

\* response.text() rejected
ProfileBodyError(s) ==
  /\ job[s].stage = "profile" /\ job[s].fetch.stage = "body"
  /\ job' = [job EXCEPT ![s].fetch = FetchFailed(@), ![s].stage = "rejected"]
  /\ UNCHANGED <<cache, inserted, nreq, req>>
  /\ UNCHANGED <<newer, text, parsed>>

\* ProfileLoaded with a page without pinned items treated as a failure.
ProfileLoadedEmptyFails(s, page) ==
  /\ job[s].stage = "profile" /\ job[s].fetch.stage = "body"
  /\ job' = [job EXCEPT ![s] =
       IF Len(page) = 0
         THEN [@ EXCEPT !.fetch = FetchLoaded(@, Undefined), !.stage = "rejected"]
         ELSE [@ EXCEPT !.fetch = FetchLoaded(@, Undefined), !.stage = "items",
                        !.page = page,
                        !.web = [i \in 1..Len(page) |-> StartFetch]]]
  /\ UNCHANGED <<cache, inserted, nreq, req>>
  /\ UNCHANGED <<newer, text, parsed>>

\* The page loaded: no pinned items resolves to []; otherwise every item
\* starts its website fetch.
ProfileLoaded(s, page) ==
  /\ job[s].stage = "profile" /\ job[s].fetch.stage = "body"
  /\ job' = [job EXCEPT ![s] =
       IF Len(page) = 0
         THEN [@ EXCEPT !.fetch = FetchLoaded(@, Undefined), !.stage = "resolved",
                        !.list = << >>]
         ELSE [@ EXCEPT !.fetch = FetchLoaded(@, Undefined), !.stage = "items",
                        !.page = page,
                        !.web = [i \in 1..Len(page) |-> StartFetch]]]
  /\ UNCHANGED <<cache, inserted, nreq, req>>
  /\ UNCHANGED <<newer, text, parsed>>

\* ---------------------------------------------- the website fetches
WebsiteHeaders(s, i) ==
  /\ job[s].stage = "items" /\ i \in 1..Len(job[s].web)
  /\ job[s].web[i].stage = "connect"
  /\ job' = [job EXCEPT ![s].web[i] = FetchHeaders(@)]
  /\ UNCHANGED <<cache, inserted, nreq, req>>
  /\ UNCHANGED <<newer, text, parsed>>

\* WebsiteError without the try/catch of getRepoWebsite: Promise.all rejects.
WebsiteErrorPropagating(s, i) ==
  /\ job[s].stage = "items" /\ i \in 1..Len(job[s].web)
  /\ job[s].web[i].stage = "connect"
  /\ job' = [job EXCEPT ![s].web[i] = FetchFailed(@), ![s].stage = "rejected"]
  /\ UNCHANGED <<cache, inserted, nreq, req>>
  /\ UNCHANGED <<newer, text, parsed>>

\* getRepoWebsite catches the failure and returns undefined
WebsiteError(s, i) ==
  /\ job[s].stage = "items" /\ i \in 1..Len(job[s].web)
  /\ job[s].web[i].stage = "connect"
  /\ job' = [job EXCEPT ![s] = ItemSettled(req[s].user, @, i, FetchFailed(@.web[i]))]
  /\ UNCHANGED <<cache, inserted, nreq, req>>
  /\ UNCHANGED <<newer, text, parsed>>

WebsiteTimeout(s, i) ==
  /\ job[s].stage = "items" /\ i \in 1..Len(job[s].web)
  /\ job[s].web[i].timer
  /\ job' = [job EXCEPT ![s] = ItemSettled(req[s].user, @, i, FetchFailed(@.web[i]))]
  /\ UNCHANGED <<cache, inserted, nreq, req>>
  /\ UNCHANGED <<newer, text, parsed>>

WebsiteBodyError(s, i) ==
  /\ job[s].stage = "items" /\ i \in 1..Len(job[s].web)
  /\ job[s].web[i].stage = "body"
  /\ job' = [job EXCEPT ![s] = ItemSettled(req[s].user, @, i, FetchFailed(@.web[i]))]
  /\ UNCHANGED <<cache, inserted, nreq, req>>
  /\ UNCHANGED <<newer, text, parsed>>

\* the repository page loaded: w is the first https anchor, or undefined
WebsiteLoaded(s, i, w) ==
  /\ job[s].stage = "items" /\ i \in 1..Len(job[s].web)
  /\ job[s].web[i].stage = "body"
  /\ job' = [job EXCEPT ![s] = ItemSettled(req[s].user, @, i, FetchLoaded(@.web[i], w))]
  /\ UNCHANGED <<cache, inserted, nreq, req>>
  /\ UNCHANGED <<newer, text, parsed>>

\* ----------------------------------------- after getPinnedRepos settled
\* The call has been consumed by its continuation: only its outcome is kept.
Consumed(j, stage) == [NoJob EXCEPT !.stage = stage, !.list = j.list, !.endAt = nreq]

\* result = await getPinnedRepos(username); cache.set(username, result);
\* return new Response(JSON.stringify(result))
SyncResolved(s) ==
  /\ req[s].path = "sync" /\ job[s].stage = "resolved"
  /\ cache' = LruSet(cache, req[s].user, job[s].list)
  /\ inserted' = inserted \cup {req[s].user}
  /\ req' = [req EXCEPT ![s].resp = JsonResponse(job[s].list)]
  /\ job' = [job EXCEPT ![s] = Consumed(@, "done")]
  /\ UNCHANGED nreq
  /\ newer' = Ended(s)
  /\ UNCHANGED <<text, parsed>>

\* SyncRejected falling back to the cached value when there is one.
SyncRejectedServingStale(s) ==
  /\ req[s].path = "sync" /\ job[s].stage = "rejected"
  /\ req' = [req EXCEPT ![s].resp =
       IF LruHas(cache, req[s].user)
         THEN JsonResponse(LruValue(cache, req[s].user))
         ELSE ErrorResponse]
  /\ job' = [job EXCEPT ![s] = Consumed(@, "failed")]
  /\ UNCHANGED <<cache, inserted, nreq>>
  /\ newer' = Ended(s)
  /\ UNCHANGED <<text, parsed>>

\* SyncRejected storing an empty list for the username that failed.
SyncRejectedCachingEmpty(s) ==
  /\ req[s].path = "sync" /\ job[s].stage = "rejected"
  /\ req' = [req EXCEPT ![s].resp = ErrorResponse]
  /\ cache' = LruSet(cache, req[s].user, << >>)
  /\ job' = [job EXCEPT ![s] = Consumed(@, "failed")]
  /\ UNCHANGED <<inserted, nreq>>
  /\ newer' = Ended(s)
  /\ UNCHANGED <<text, parsed>>

\* catch (error): 500 with the error envelope
SyncRejected(s) ==
  /\ req[s].path = "sync" /\ job[s].stage = "rejected"
  /\ req' = [req EXCEPT ![s].resp = ErrorResponse]
  /\ job' = [job EXCEPT ![s] = Consumed(@, "failed")]
  /\ UNCHANGED <<cache, inserted, nreq>>
  /\ newer' = Ended(s)
  /\ UNCHANGED <<text, parsed>>

\* RefreshResolved storing the records before every website has settled.
RefreshResolvedEarly(s) ==
  /\ req[s].path = "hit" /\ job[s].stage \in {"items", "resolved"}
  /\ cache' = LruSet(cache, req[s].user, Assemble(req[s].user, job[s].page, job[s].web))
  /\ inserted' = inserted \cup {req[s].user}
  /\ job' = [job EXCEPT ![s] = Consumed(@, "done")]
  /\ UNCHANGED <<nreq, req>>
  /\ newer' = Ended(s)
  /\ UNCHANGED <<text, parsed>>

\* RefreshResolved without the cache.set.
RefreshResolvedDropping(s) ==
  /\ req[s].path = "hit" /\ job[s].stage = "resolved"
  /\ job' = [job EXCEPT ![s] = Consumed(@, "done")]
  /\ UNCHANGED <<cache, inserted, nreq, req>>
  /\ newer' = Ended(s)
  /\ UNCHANGED <<text, parsed>>

\* .then(data => cache.set(username, data))
RefreshResolved(s) ==
  /\ req[s].path = "hit" /\ job[s].stage = "resolved"
  /\ cache' = LruSet(cache, req[s].user, job[s].list)
  /\ inserted' = inserted \cup {req[s].user}
  /\ job' = [job EXCEPT ![s] = Consumed(@, "done")]
  /\ UNCHANGED <<nreq, req>>
  /\ newer' = Ended(s)
  /\ UNCHANGED <<text, parsed>>

\* RefreshRejected dropping the entry whose refresh failed.
RefreshRejectedDeleting(s) ==
  /\ req[s].path = "hit" /\ job[s].stage = "rejected"
  /\ cache' = [cache EXCEPT !.cache = MapDel(@, req[s].user),
                            !.oldCache = MapDel(@, req[s].user)]
  /\ job' = [job EXCEPT ![s] = Consumed(@, "failed")]
  /\ UNCHANGED <<inserted, nreq, req>>
  /\ newer' = Ended(s)
  /\ UNCHANGED <<text, parsed>>

\* .catch(console.error)
RefreshRejected(s) ==
  /\ req[s].path = "hit" /\ job[s].stage = "rejected"
  /\ job' = [job EXCEPT ![s] = Consumed(@, "failed")]
  /\ UNCHANGED <<cache, inserted, nreq, req>>
  /\ newer' = Ended(s)
  /\ UNCHANGED <<text, parsed>>

\* ----------------------------------------------------------- specifications
Init ==
  /\ cache = NewLRU
  /\ inserted = {}
  /\ nreq = 0
  /\ req = [s \in Slots |-> NoRequest]
  /\ job = [s \in Slots |-> NoJob]
  /\ newer = 0
  /\ text = << >>
  /\ parsed = NotParsed

\* The steps of the calls in flight, with the profile pages drawn from P.
Step(P) ==
  \/ \E s \in Slots : ProfileHeaders(s)
  \/ \E s \in Slots : ProfileError(s)
  \/ \E s \in Slots : ProfileTimeout(s)
  \/ \E s \in Slots : ProfileBodyError(s)
  \/ \E s \in Slots, page \in P : ProfileLoaded(s, page)
  \/ \E s \in Slots, i \in 1..2 : WebsiteHeaders(s, i)
  \/ \E s \in Slots, i \in 1..2 : WebsiteError(s, i)
  \/ \E s \in Slots, i \in 1..2 : WebsiteTimeout(s, i)
  \/ \E s \in Slots, i \in 1..2 : WebsiteBodyError(s, i)
  \/ \E s \in Slots, i \in 1..2, w \in Websites : WebsiteLoaded(s, i, w)
  \/ \E s \in Slots : SyncResolved(s)
  \/ \E s \in Slots : SyncRejected(s)
  \/ \E s \in Slots : RefreshResolved(s)
  \/ \E s \in Slots : RefreshRejected(s)

Next ==
  \/ \E m \in Methods, u \in Users \cup {NoUser}, f \in BOOLEAN : Handler(m, u, f)
  \/ Step(Pages)

\* Concurrent requests for two usernames whose profiles pin at most one item.
Spec == Init /\ [][Next]_vars

ItemNext ==
  \/ \E m \in Methods, u \in ItemUsers \cup {NoUser}, f \in BOOLEAN : ItemHandler(m, u, f)
  \/ Step(ItemPages)

\* Concurrent requests for one username whose profile pins two items.
SpecItems == Init /\ [][ItemNext]_vars

SeqNext ==
  \/ \E m \in Methods, u \in SeqUsers \cup {NoUser}, f \in BOOLEAN : SeqHandler(m, u, f)
  \/ Step(SeqPages)

\* Requests one after the other for enough usernames to fill the cache.
SpecSeq == Init /\ [][SeqNext]_vars

\* The list stored for u before the run starts.
WarmList(u) == Assemble(u, <<"r1">>, <<FetchLoaded(StartFetch, "w1")>>)

\* The cache after u1, u2 and u3 were fetched and stored one after the other.
WarmCache ==
  LruSet(LruSet(LruSet(NewLRU, "u1", WarmList("u1")),
                "u2", WarmList("u2")),
         "u3", WarmList("u3"))

PairInit ==
  /\ cache = WarmCache
  /\ inserted = PairUsers
  /\ nreq = 0
  /\ req = [s \in Slots |-> NoRequest]
  /\ job = [s \in Slots |-> NoJob]
  /\ newer = 0
  /\ text = << >>
  /\ parsed = NotParsed

PairNext ==
  \/ \E m \in Methods, u \in PairUsers \cup {NoUser}, f \in BOOLEAN : PairHandler(m, u, f)
  \/ Step(PairPages)

\* Concurrent requests for three usernames, received by a server whose
\* cache already holds all three.
SpecPair == PairInit /\ [][PairNext]_vars

ParseInit ==
  /\ cache = NewLRU
  /\ inserted = {}
  /\ nreq = 0
  /\ req = [s \in Slots |-> NoRequest]
  /\ job = [s \in Slots |-> NoJob]
  /\ newer = 0
  /\ text \in Texts
  /\ parsed = NotParsed

ParseNext == NormalizeCount

\* parseNumericValue applied to every count text of up to MaxLen characters.
SpecParse == ParseInit /\ [][ParseNext]_vars

\* ------------------------------------------------------------- properties
\* The request of slot s was received in this step.
Arrives(s) == nreq' = nreq + 1 /\ (req'[s] # req[s] \/ job'[s] # job[s])

\* The response of slot s, once produced, stays what it is.
ResponseFinal(s) ==
  (nreq' = nreq /\ req[s].resp.status # 0) => req'[s].resp = req[s].resp

\* The getPinnedRepos call of slot s is still running.
InFlight(s) == job[s].stage \in {"profile", "items", "resolved", "rejected"}

\* C1: a GET for U without refresh=true that finds U in the cache is answered
\* 200 with the value cached at that moment, in the very step that starts the
\* background refresh, and that response never changes afterwards, whatever
\* the refresh does.
C1_HitAnsweredFromCache ==
  /\ [][\A s \in Slots :
          (Arrives(s) /\ req'[s].method = "GET" /\ ~req'[s].refresh
             /\ LruHas(cache, req'[s].user))
          => /\ req'[s].resp = JsonResponse(LruValue(cache, req'[s].user))
             /\ job'[s] = StartJob]_vars
  /\ [][\A s \in Slots : req[s].path = "hit" => ResponseFinal(s)]_vars

\* A cache hit has its 200 response while its refresh is still in flight.
C1_Witness ==
  \E s \in Slots :
    /\ req[s].path = "hit" /\ req[s].resp.status = 200
    /\ job[s].stage = "profile" /\ job[s].fetch.stage = "body"

\* C2: a GET for U with refresh=true always starts a synchronous fetch, also
\* when U is cached; when the fetch succeeds the response is 200 with the
\* fetched list and the cache holds that list for U at that moment.
C2_RefreshFetchesAnew ==
  /\ [][\A s \in Slots :
          (Arrives(s) /\ req'[s].method = "GET" /\ req'[s].refresh)
          => /\ req'[s].path = "sync" /\ req'[s].resp = NoResponse
             /\ job'[s] = StartJob]_vars
  /\ [][\A s \in Slots :
          (nreq' = nreq /\ req[s].refresh /\ job[s].stage = "resolved"
             /\ job'[s].stage # "resolved")
          => /\ req'[s].resp = JsonResponse(job[s].list)
             /\ LruHas(cache', req[s].user)
             /\ LruValue(cache', req[s].user) = job[s].list]_vars

\* A refresh=true request arrived after a hit for the same username had been
\* served another list, and was answered with the list it fetched.
C2_Witness ==
  \E a, b \in Slots :
    /\ a # b /\ req[a].user = req[b].user
    /\ req[b].path = "hit" /\ ~InFlight(b) /\ job[b].endAt < nreq
    /\ req[a].refresh /\ job[a].stage = "done"
    /\ req[a].resp.status = 200 /\ req[a].resp.list # req[b].resp.list
    /\ LruHas(cache, req[a].user)
    /\ LruValue(cache, req[a].user) = req[a].resp.list

\* The continuation of the call of slot s runs in this step.
Continues(s, stage) ==
  nreq' = nreq /\ job[s].stage = stage /\ job'[s].stage # stage

\* C3: a refresh=true request whose fetch fails answers 500 with the error
\* envelope, also when U is cached, and leaves the cache as it is; a later
\* GET for U without refresh=true that finds U cached is answered 200 with
\* the cached value.
C3_FailedRefreshKeepsEntry ==
  /\ [][\A s \in Slots :
          (req[s].path = "sync" /\ req[s].refresh /\ Continues(s, "rejected"))
          => /\ req'[s].resp = ErrorResponse
             /\ cache' = cache]_vars
  /\ [][\A s, t \in Slots :
          (/\ req[t].refresh /\ job[t].stage = "failed"
           /\ Arrives(s) /\ req'[s].method = "GET" /\ ~req'[s].refresh
           /\ req'[s].user = req[t].user /\ LruHas(cache, req[t].user))
          => req'[s].resp = JsonResponse(LruValue(cache, req[t].user))]_vars

\* A refresh=true request failed with 500, and a request that arrived after
\* that failure was served the cached list.
C3_Witness ==
  \E s, t \in Slots :
    /\ s # t /\ req[s].user = req[t].user
    /\ req[t].refresh /\ job[t].stage = "failed" /\ req[t].resp.status = 500
    /\ job[t].endAt < nreq
    /\ req[s].path = "hit" /\ req[s].resp.status = 200
    /\ Len(req[s].resp.list) > 0

\* C4: when the background refresh of a cache hit fails, neither the cache
\* nor any response changes, and a request served from the cache is never
\* answered anything but 200.
C4_FailedBackgroundRefreshInvisible ==
  /\ [][\A s \in Slots :
          (/\ nreq' = nreq /\ req[s].path = "hit"
           /\ job'[s].stage \in {"rejected", "failed"}
           /\ job'[s].stage # job[s].stage)
          => cache' = cache /\ req' = req]_vars
  /\ [](\A s \in Slots : req[s].path = "hit" => req[s].resp.status = 200)

\* The refresh of a cache hit has failed; the entry is still the list that
\* was served.
C4_Witness ==
  \E s \in Slots :
    /\ req[s].path = "hit" /\ job[s].stage = "failed"
    /\ req[s].resp.status = 200
    /\ LruHas(cache, req[s].user)
    /\ LruValue(cache, req[s].user) = req[s].resp.list

\* C5: when the background refresh of a cache hit for U succeeds, the entry
\* for U becomes the refreshed list, and while that list is the one held for
\* U a GET for U without refresh=true is answered with it.
C5_BackgroundRefreshOverwrites ==
  /\ [][\A s \in Slots :
          (req[s].path = "hit" /\ Continues(s, "resolved"))
          => /\ LruHas(cache', req[s].user)
             /\ LruValue(cache', req[s].user) = job[s].list
             /\ req' = req]_vars
  /\ [][\A s, t \in Slots :
          (/\ req[t].path = "hit" /\ job[t].stage = "done"
           /\ LruHas(cache, req[t].user)
           /\ LruValue(cache, req[t].user) = job[t].list
           /\ Arrives(s) /\ req'[s].method = "GET" /\ ~req'[s].refresh
           /\ req'[s].user = req[t].user)
          => req'[s].resp = JsonResponse(job[t].list)]_vars

\* A cache hit was served one list, its refresh stored another, and a later
\* hit was served the refreshed one.
C5_Witness ==
  \E s, t \in Slots :
    /\ s # t /\ req[s].user = req[t].user
    /\ req[t].path = "hit" /\ job[t].stage = "done" /\ job[t].endAt < nreq
    /\ job[t].list # req[t].resp.list
    /\ req[s].path = "hit" /\ req[s].resp = JsonResponse(job[t].list)

\* C6: a GET for U without refresh=true that does not find U in the cache
\* fetches synchronously; on success it stores the list under U and answers
\* 200 with it, on failure it answers 500 with error and details and the
\* cache is left as it is.
C6_MissFetchesSynchronously ==
  /\ [][\A s \in Slots :
          (/\ Arrives(s) /\ req'[s].method = "GET" /\ ~req'[s].refresh
           /\ req'[s].user # NoUser /\ ~LruHas(cache, req'[s].user))
          => /\ req'[s].path = "sync" /\ req'[s].resp = NoResponse
             /\ job'[s] = StartJob /\ cache' = cache]_vars
  /\ [][\A s \in Slots :
          (req[s].path = "sync" /\ ~req[s].refresh /\ Continues(s, "resolved"))
          => /\ req'[s].resp = JsonResponse(job[s].list)
             /\ LruHas(cache', req[s].user)
             /\ LruValue(cache', req[s].user) = job[s].list]_vars
  /\ [][\A s \in Slots :
          (req[s].path = "sync" /\ ~req[s].refresh /\ Continues(s, "rejected"))
          => /\ req'[s].resp.status = 500 /\ req'[s].resp.kind = "error"
             /\ req'[s].resp.error # "" /\ req'[s].resp.details # ""
             /\ cache' = cache]_vars

\* One miss was fetched, stored and answered 200; another failed with 500 and
\* its username has no entry.
C6_Witness ==
  \E s, t \in Slots :
    /\ req[s].path = "sync" /\ ~req[s].refresh /\ req[s].resp.status = 200
    /\ LruHas(cache, req[s].user)
    /\ LruValue(cache, req[s].user) = req[s].resp.list
    /\ req[t].path = "sync" /\ ~req[t].refresh /\ req[t].resp.status = 500
    /\ ~LruHas(cache, req[t].user)

\* C7 as stated: the cache never holds more than maxSize usernames, and once
\* more than maxSize usernames have been inserted one of them is gone.
C7_ExactCapacity ==
  /\ Cardinality(LruKeys(cache)) <= maxSize
  /\ Cardinality(inserted) > maxSize => \E u \in inserted : ~LruHas(cache, u)

\* C7 amended: the cache holds two generations, the recent one of fewer than
\* maxSize usernames and the old one of at most maxSize, hence at most
\* 2 * maxSize - 1 usernames; only usernames of the old generation that are
\* not in the recent one are ever evicted; and a GET without refresh=true for
\* a username that was evicted takes the miss path.
C7_TwoGenerationCapacity ==
  /\ [](/\ Cardinality(DOMAIN cache.cache) < maxSize
        /\ Cardinality(DOMAIN cache.oldCache) <= maxSize
        /\ Cardinality(LruKeys(cache)) <= 2 * maxSize - 1)
  /\ [][LruKeys(cache) \ LruKeys(cache')
          \subseteq (DOMAIN cache.oldCache) \ (DOMAIN cache.cache)]_vars
  /\ [][\A s \in Slots :
          (/\ Arrives(s) /\ req'[s].method = "GET" /\ ~req'[s].refresh
           /\ req'[s].user \in inserted /\ ~LruHas(cache, req'[s].user))
          => /\ req'[s].path = "sync" /\ req'[s].resp = NoResponse
             /\ job'[s] = StartJob]_vars

\* A username that was inserted is no longer in the cache, and a request for
\* it is waiting for its synchronous fetch.
C7_Witness ==
  \E s \in Slots :
    /\ req[s].path = "sync" /\ ~req[s].refresh /\ req[s].resp.status = 0
    /\ req[s].user \in inserted /\ ~LruHas(cache, req[s].user)

\* C8: every outbound fetch that is waiting for the upstream, for the
\* response or for its body, has its abort timer armed.
C8_EveryFetchTimed ==
  \A s \in Slots :
    /\ job[s].stage = "profile" => job[s].fetch.timer
    /\ job[s].stage = "items" =>
         \A i \in 1..Len(job[s].web) :
           job[s].web[i].stage \in {"connect", "body"} => job[s].web[i].timer

\* C9: a website fetch that fails leaves its getPinnedRepos call running or
\* resolved, never rejected; the item keeps its place with an undefined
\* website, the other items keep what they have, and the list the call
\* resolves to has one record per pinned item with the website each fetch
\* gave.
C9_WebsiteFailureKeepsItem ==
  /\ [][\A s \in Slots : \A i \in 1..Len(job[s].web) :
          (/\ nreq' = nreq /\ job[s].stage = "items"
           /\ job[s].web[i].stage \in {"connect", "body"}
           /\ Len(job'[s].web) = Len(job[s].web)
           /\ job'[s].web[i].stage = "failed")
          => /\ job'[s].stage \in {"items", "resolved"}
             /\ job'[s].page = job[s].page
             /\ job'[s].web[i].value = Undefined
             /\ \A k \in 1..Len(job[s].web) : k # i => job'[s].web[k] = job[s].web[k]]_vars
  /\ [](\A s \in Slots :
          job[s].stage = "resolved" =>
            /\ Len(job[s].list) = Len(job[s].page)
            /\ \A i \in 1..Len(job[s].page) :
                 job[s].list[i] =
                   [owner |-> req[s].user, repo |-> job[s].page[i],
                    website |-> IF job[s].web[i].stage = "failed"
                                  THEN Undefined ELSE job[s].web[i].value])

\* A call resolved with two records although the website fetch of the first
\* item failed; the second item has its website.
C9_Witness ==
  \E s \in Slots :
    /\ job[s].stage = "resolved" /\ Len(job[s].list) = 2
    /\ job[s].web[1].stage = "failed" /\ job[s].web[2].stage = "done"
    /\ job[s].list[1].website = Undefined /\ job[s].list[2].website = "w1"

\* l is the full record list of a profile page of u: one record per pinned
\* item, in order, every website settled.
CompleteList(u, l) ==
  \E p \in Pages \cup SeqPages \cup ItemPages :
    /\ Len(l) = Len(p)
    /\ \A i \in 1..Len(p) :
         /\ l[i].owner = u /\ l[i].repo = p[i]
         /\ l[i].website \in Websites

\* C10: every list held in the cache or sent in a 200 response is the full
\* record list of a profile page; the cache entry of a username changes only
\* to the list of a call whose profile fetch succeeded and whose website
\* fetches have all settled; a call whose profile fetch failed changes no
\* entry.
C10_AllOrNothing ==
  /\ [](/\ \A u \in LruKeys(cache) : CompleteList(u, LruValue(cache, u))
        /\ \A s \in Slots :
             req[s].resp.kind = "json" => CompleteList(req[s].user, req[s].resp.list))
  /\ [][\A u \in LruKeys(cache') :
          (~LruHas(cache, u) \/ LruValue(cache', u) # LruValue(cache, u))
          => \E s \in Slots :
               /\ req[s].user = u /\ job[s].stage = "resolved"
               /\ job[s].fetch.stage = "done" /\ AllSettled(job[s].web)
               /\ LruValue(cache', u) = Assemble(u, job[s].page, job[s].web)]_vars
  /\ [][\A s \in Slots :
          (nreq' = nreq /\ job[s].fetch.stage = "failed" /\ job'[s] # job[s])
          => cache' = cache /\ req'[s].resp.kind \in {"error", "json"}
             /\ (req'[s].resp.kind = "json" => req'[s] = req[s])]_vars

\* The cache holds a full list for a username while a refresh for it has
\* settled one of its two website fetches and not the other.
C10_Witness ==
  \E s \in Slots :
    /\ req[s].path = "hit" /\ job[s].stage = "items" /\ Len(job[s].web) = 2
    /\ job[s].web[1].stage = "done" /\ job[s].web[2].stage = "connect"
    /\ LruHas(cache, req[s].user)
    /\ CompleteList(req[s].user, LruValue(cache, req[s].user))

\* C11: when the profile page of a username loads and holds no pinned item,
\* getPinnedRepos resolves with the empty list, having started no website
\* fetch, and a request waiting for it answers 200 with the empty list, not
\* 500.
C11_NoPinnedItemsIsEmptyList ==
  /\ [][\A s \in Slots :
          (job[s].stage = "profile" /\ job'[s].fetch.stage = "done"
             /\ job'[s].page = << >>)
          => /\ job'[s].stage = "resolved" /\ job'[s].list = << >>
             /\ job'[s].web = << >>]_vars
  /\ [][\A s \in Slots :
          (req[s].path = "sync" /\ job[s].fetch.stage = "done"
             /\ job[s].page = << >> /\ Continues(s, "resolved"))
          => req'[s].resp = JsonResponse(<< >>)]_vars
  /\ [](\A s \in Slots :
          (job[s].stage = "resolved" /\ job[s].page = << >>)
          => /\ job[s].web = << >> /\ job[s].list = << >>
             /\ req[s].resp.status # 500)

\* A request that waited for a profile without pinned items has its 200
\* response with the empty list.
C11_Witness ==
  \E s \in Slots :
    /\ req[s].path = "sync" /\ job[s].stage = "done" /\ job[s].list = << >>
    /\ req[s].resp = JsonResponse(<< >>)

\* C12: an OPTIONS request, whatever its query and whatever the cache holds,
\* answers 200 with an empty body, starts no fetch, and leaves the cache
\* and every other request as they are.
C12_OptionsIsPreflightOnly ==
  [][\A s \in Slots :
       (Arrives(s) /\ req'[s].method = "OPTIONS")
       => /\ req'[s].resp.status = 200 /\ req'[s].resp.kind = "empty"
          /\ req'[s].resp.list = << >>
          /\ job'[s] = NoJob
          /\ cache' = cache /\ inserted' = inserted
          /\ \A t \in Slots \ {s} : req'[t] = req[t] /\ job'[t] = job[t]]_vars

\* An OPTIONS request has been answered while the cache holds an entry and
\* another request is waiting for its fetch.
C12_Witness ==
  \E s \in Slots :
    /\ req[s].method = "OPTIONS" /\ req[s].resp = OptionsResponse
    /\ job[s] = NoJob
    /\ LruKeys(cache) # {}
    /\ \E t \in Slots \ {s} : req[t].path = "sync" /\ job[t].stage = "profile"

\* C17: a GET with a username starts one profile fetch of its own and
\* touches no other call; a call has one website fetch per pinned item; no
\* fetch that has left its connecting stage ever connects again.
C17_OneFetchEachNoRetry ==
  /\ [][\A s \in Slots :
          (Arrives(s) /\ req'[s].method = "GET" /\ req'[s].user # NoUser)
          => /\ job'[s] = StartJob
             /\ \A t \in Slots \ {s} : job'[t] = job[t]]_vars
  /\ [][\A s \in Slots :
          nreq' = nreq
          => /\ job'[s].stage = "profile" => job[s].stage = "profile"
             /\ job'[s].fetch.stage = "connect" => job[s].fetch.stage = "connect"
             /\ job'[s].stage = "items" => Len(job'[s].web) = Len(job'[s].page)
             /\ (job[s].stage = "items" /\ job'[s].stage = "items")
                => \A i \in 1..Len(job[s].web) :
                     job'[s].web[i].stage = "connect"
                     => job[s].web[i].stage = "connect"]_vars

\* Two requests for the same username are in flight together, each with
\* its own profile fetch, one still connecting and one reading the body.
C17_Witness ==
  \E s, t \in Slots :
    /\ s # t /\ req[s].user # NoUser /\ req[s].user = req[t].user
    /\ job[s].stage = "profile" /\ job[s].fetch.stage = "connect"
    /\ job[t].stage = "profile" /\ job[t].fetch.stage = "body"

\* C20: a fetch that resolved with the empty list stores it like any other
\* list, and a GET without refresh=true that finds the empty list cached is
\* a cache hit: 200 with the empty list at once, and a detached refresh.
C20_EmptyListIsCached ==
  /\ [][\A s \in Slots :
          (req[s].path \in {"sync", "hit"} /\ Continues(s, "resolved")
             /\ job[s].list = << >>)
          => /\ LruHas(cache', req[s].user)
             /\ LruValue(cache', req[s].user) = << >>]_vars
  /\ [][\A s \in Slots :
          (Arrives(s) /\ req'[s].method = "GET" /\ req'[s].user # NoUser
             /\ ~req'[s].refresh /\ LruHas(cache, req'[s].user)
             /\ LruValue(cache, req'[s].user) = << >>)
          => /\ req'[s].path = "hit"
             /\ req'[s].resp = JsonResponse(<< >>)
             /\ job'[s] = StartJob]_vars

\* A request answered from a cached empty list while its refresh runs.
C20_Witness ==
  \E s \in Slots :
    /\ req[s].path = "hit" /\ req[s].resp = JsonResponse(<< >>)
    /\ job[s].stage = "profile"
    /\ LruHas(cache, req[s].user) /\ LruValue(cache, req[s].user) = << >>

\* C16: the list getPinnedRepos resolves with has one record per pinned
\* item, in the order of the items in the profile markup, each with the
\* website its own fetch found (none when it failed or timed out), in
\* whatever order the website fetches settled; that list is what a waiting
\* request is answered with.
C16_MarkupOrderKept ==
  /\ [](\A s \in Slots :
          job[s].stage = "resolved"
          => /\ Len(job[s].list) = Len(job[s].page)
             /\ \A i \in 1..Len(job[s].page) :
                  /\ job[s].list[i].repo = job[s].page[i]
                  /\ job[s].list[i].website = job[s].web[i].value)
  /\ [][\A s \in Slots :
          (req[s].path = "sync" /\ Continues(s, "resolved"))
          => /\ req'[s].resp.kind = "json"
             /\ Len(req'[s].resp.list) = Len(job[s].page)
             /\ \A i \in 1..Len(job[s].page) :
                  req'[s].resp.list[i].repo = job[s].page[i]]_vars

\* A call resolved after its second website fetch settled before its
\* first, which failed; the records are in markup order all the same.
C16_Witness ==
  \E s \in Slots :
    /\ job[s].stage = "resolved" /\ job[s].settled = <<2, 1>>
    /\ job[s].web[1].stage = "failed" /\ job[s].web[2].stage = "done"
    /\ job[s].page[1] # job[s].page[2]
    /\ job[s].list[1].repo = job[s].page[1]
    /\ job[s].list[2].repo = job[s].page[2]

\* Slot s takes a step: its request arrives or its call moves on.
Acts(s) == req'[s] # req[s] \/ job'[s] # job[s]

\* The username the step of slot s is for.
ActsFor(s) == IF nreq' = nreq THEN req[s].user ELSE req'[s].user

\* C18 as stated: no step taken for username A changes or removes the cache
\* entry of another username B, or anything of another request.
C18_NoEffectOnOthers ==
  [][\A s \in Slots :
       Acts(s)
       => /\ \A t \in Slots \ {s} : req'[t] = req[t] /\ job'[t] = job[t]
          /\ \A B \in PairUsers \ {ActsFor(s)} :
               /\ LruHas(cache, B) = LruHas(cache', B)
               /\ LruHas(cache, B) => LruValue(cache', B) = LruValue(cache, B)]_vars

\* C18, amended: a step taken for username A changes nothing of another
\* request, never creates and never changes the cache entry of another
\* username B, and removes it only by eviction: when the step fills the
\* recent generation of the cache and B was in the old one only.
C18_IndependentUpToEviction ==
  [][\A s \in Slots :
       Acts(s)
       => /\ \A t \in Slots \ {s} : req'[t] = req[t] /\ job'[t] = job[t]
          /\ \A B \in PairUsers \ {ActsFor(s)} :
               /\ LruHas(cache', B)
                  => /\ LruHas(cache, B)
                     /\ LruValue(cache', B) = LruValue(cache, B)
               /\ (LruHas(cache, B) /\ ~LruHas(cache', B))
                  => /\ B \notin DOMAIN cache.cache
                     /\ cache'.size = 0 /\ cache'.cache = EmptyMap
                     /\ ActsFor(s) \in DOMAIN cache'.oldCache]_vars

\* A request for one username has stored a new list, which evicted a second
\* username, while a request for a third one, answered from the cache, still
\* finds its entry as it was.
C18_Witness ==
  \E s, t \in Slots :
    /\ s # t /\ req[s].user # NoUser /\ req[t].user # NoUser
    /\ req[s].user # req[t].user
    /\ req[s].path = "sync" /\ job[s].stage = "done"
    /\ LruHas(cache, req[s].user)
    /\ LruValue(cache, req[s].user) # WarmList(req[s].user)
    /\ req[t].path = "hit" /\ job[t].stage = "profile"
    /\ req[t].resp = JsonResponse(WarmList(req[t].user))
    /\ LruHas(cache, req[t].user)
    /\ LruValue(cache, req[t].user) = WarmList(req[t].user)
    /\ \E C \in PairUsers : ~LruHas(cache, C)

\* C19: the cache entry of a username is never overwritten with the result
\* of a call that started before the call whose result it holds: when the
\* call of slot b started after the still running call of slot a for the
\* same username and has stored its list, the completion of a leaves that
\* list in the cache.
C19_FreshnessMonotonic ==
  [][\A a, b \in Slots :
       (/\ a # b /\ req[a].user # NoUser /\ req[a].user = req[b].user
        /\ newer = b /\ job[b].stage = "done"
        /\ LruHas(cache, req[b].user)
        /\ LruValue(cache, req[b].user) = job[b].list
        /\ Continues(a, "resolved"))
       => /\ LruHas(cache', req[b].user)
          /\ LruValue(cache', req[b].user) = job[b].list]_vars

\* ---------------------------------- the reference of the numeric normalizer
\* The text without the spaces around it, letters in lower case.
Core(t) ==
  LET inked == {i \in 1..Len(t) : t[i] # " "}
      first == CHOOSE i \in inked : \A j \in inked : i <= j
      last  == CHOOSE i \in inked : \A j \in inked : j <= i
  IN  IF inked = {} THEN << >>
      ELSE [i \in 1..(last - first + 1) |->
              IF t[first + i - 1] = "K" THEN "k" ELSE t[first + i - 1]]

EndsWithK(t) == t # << >> /\ t[Len(t)] = "k"

\* The text before the final k.
Remainder(t) == SubSeq(t, 1, Len(t) - 1)

Negative(p) == p # << >> /\ p[1] = "-"

\* p is a base-10 integer: an optional minus sign and one digit or more.
IsIntegerLiteral(p) ==
  LET b == IF Negative(p) THEN 2 ELSE 1
  IN  Len(p) >= b /\ \A i \in b..Len(p) : p[i] \in Digits

\* p is a decimal number: an optional minus sign, then digits with at most
\* one point among them, one digit at least.
IsDecimalLiteral(p) ==
  LET b == IF Negative(p) THEN 2 ELSE 1
  IN  /\ \A i \in b..Len(p) : p[i] \in Digits \cup {"."}
      /\ Cardinality({i \in b..Len(p) : p[i] = "."}) <= 1
      /\ \E i \in b..Len(p) : p[i] \in Digits

DigitPositions(p) == {i \in 1..Len(p) : p[i] \in Digits}

RECURSIVE PlaceValues(_, _)
PlaceValues(p, pos) ==
  IF pos = {} THEN 0
  ELSE LET i == CHOOSE x \in pos : TRUE
       IN  DigitValue(p[i]) * (10 ^ Cardinality({j \in DigitPositions(p) : j > i}))
           + PlaceValues(p, pos \ {i})

\* The digits of a literal read as one integer, with its sign.
Unscaled(p) ==
  IF Negative(p) THEN 0 - PlaceValues(p, DigitPositions(p))
  ELSE PlaceValues(p, DigitPositions(p))

\* 10 to the number of digits after the point.
Scale(p) ==
  10 ^ Cardinality({i \in DigitPositions(p) : \E d \in 1..i : p[d] = "."})

\* r is the integer nearest to n / d, the upper one of two.
Nearest(r, n, d) == 2 * d * r - d <= 2 * n /\ 2 * n < 2 * d * r + d

\* The longest beginning of t that Is accepts; empty when there is none.
LongestPrefix(t, Is(_)) ==
  LET P == {n \in 1..Len(t) : Is(SubSeq(t, 1, n))}
  IN  IF P = {} THEN << >>
      ELSE SubSeq(t, 1, CHOOSE n \in P : \A m \in P : m <= n)

\* C13 as stated, numbers being whole texts: after trimming, a text ending
\* in k whose remainder is a decimal number maps to that number times 1000,
\* rounded; any other text maps to the integer it is, and to 0 when it is
\* not an integer.
C13_AgreesWithReference ==
  parsed.done
  => LET core == Core(text)
     IN  IF EndsWithK(core)
           THEN IsDecimalLiteral(Remainder(core))
                => /\ ~parsed.nan
                   /\ Nearest(parsed.val, Unscaled(Remainder(core)) * 1000,
                              Scale(Remainder(core)))
           ELSE /\ ~parsed.nan
                /\ parsed.val = IF IsIntegerLiteral(core) THEN Unscaled(core) ELSE 0

\* C13, amended: after trimming and lower-casing, a text ending in k maps
\* to the decimal number its remainder begins with, times 1000, rounded to
\* the nearest integer, and to NaN when the remainder begins with no
\* number; any other text maps to the integer it begins with, and to 0 when
\* it begins with none; so "" -> 0, "0" -> 0, "5" -> 5, "1.2k" -> 1200,
\* "2k" -> 2000, "abc" -> 0.
C13_AgreesWithPrefixReference ==
  parsed.done
  => /\ LET core == Core(text)
            dec  == LongestPrefix(Remainder(core), IsDecimalLiteral)
            int  == LongestPrefix(core, IsIntegerLiteral)
        IN  IF EndsWithK(core)
              THEN IF dec = << >> THEN parsed.nan
                   ELSE /\ ~parsed.nan
                        /\ Nearest(parsed.val, Unscaled(dec) * 1000, Scale(dec))
              ELSE /\ ~parsed.nan
                   /\ parsed.val = IF int = << >> THEN 0 ELSE Unscaled(int)
     /\ text = << >> => parsed.val = 0
     /\ text = <<"0">> => parsed.val = 0
     /\ text = <<"5">> => parsed.val = 5
     /\ text = <<"1", ".", "2", "k">> => parsed.val = 1200
     /\ text = <<"2", "k">> => parsed.val = 2000
     /\ text = <<"a", "b", "c">> => parsed.val = 0

\* "1.2K" has been normalized to 1200.
C13_Witness ==
  /\ parsed.done /\ text = <<"1", ".", "2", "K">>
  /\ ~parsed.nan /\ parsed.val = 1200

\* C14 as stated: a text that does not end in k and is not as a whole a
\* base-10 integer is normalized to 0.
C14_NonIntegerTextIsZero ==
  (parsed.done /\ ~EndsWithK(Core(text)) /\ ~IsIntegerLiteral(Core(text)))
  => ~parsed.nan /\ parsed.val = 0

\* C14, amended: a text that does not end in k and is not as a whole a
\* base-10 integer is normalized to the integer in front of its first
\* character that cannot continue one, and to 0 only when there is no such
\* integer.
C14_LeadingIntegerIsKept ==
  (parsed.done /\ ~EndsWithK(Core(text)) /\ ~IsIntegerLiteral(Core(text)))
  => LET core  == Core(text)
         split == {n \in 1..(Len(core) - 1) :
                     /\ IsIntegerLiteral(SubSeq(core, 1, n))
                     /\ core[n + 1] \notin Digits}
     IN  /\ ~parsed.nan
         /\ split = {} => parsed.val = 0
         /\ \A n \in split : parsed.val = Unscaled(SubSeq(core, 1, n))

\* "1,20" has been normalized to 1.
C14_Witness ==
  /\ parsed.done /\ text = <<"1", ",", "2", "0">>
  /\ ~parsed.nan /\ parsed.val = 1

\* C15: whatever the scraped text, the count made of it is a non-negative
\* integer, and it is 0 when the text holds no number at all.
C15_CountsAreNaturals ==
  parsed.done
  => /\ ~parsed.nan
     /\ parsed.val >= 0
     /\ DigitPositions(text) = {} => parsed.val = 0
====
